---- MODULE Spec2Model ----
(***************************************************************************)
(* The WebSocket ping session of net-tools (package pkg): option           *)
(* resolution and validation, the ticker-driven measurement loop, the      *)
(* preload goroutines and the connection check.                            *)
(*                                                                         *)
(* Representation.  A Go string is a sequence of chunks, "" is <<>>, so    *)
(* that strings.HasPrefix and concatenation are computed.  A Go pointer    *)
(* field (of an int, bool or string) is <<>> for nil and <<v>> if set.  A   *)
(* JSON object is a function from its keys to its values.  Go's int is a   *)
(* two's-complement machine integer; the model keeps the wrap-around at    *)
(* the scaled-down width IntBits.                                          *)
(***************************************************************************)
EXTENDS Integers, Sequences, FiniteSets, TLC

VARIABLES
    pc,               \* position of PingHandler: "await", "tick", "measure", "send", "check", "done"
    reason,           \* why PingHandler returned ("None" while it has not)
    connOpen,         \* the websocket connection is open (closed by the deferred conn.Close)
    input,            \* the JSON object read from the connection (<<>> before the read)
    pingMsg,          \* the decoded PingMessage
    opts,             \* the resolved PingOptions held by PingHandler
    tickerOn,         \* the ticker created by time.NewTicker runs
    sequence,         \* the loop's sequence counter
    currentPacketSize,\* the tick's packet size
    pong,             \* the tick's PongMessage (<<>> outside a tick, <<p>> once built)
    sent,             \* the PongMessages written to the connection, in order
    built,            \* the PongMessages built by the loop, one per measureLatency call, in order
    probes,           \* what each measureLatency call of the loop returned: <<latency, ok>>
    checks,           \* number of checkConnection calls made
    now,              \* logical clock read by time.Now
    peerUp,           \* the client is still connected
    preloadPending,   \* preload goroutines that have not finished
    preloadLogged,    \* result lines logged by preload goroutines
    rIn,              \* resolver harness: the PingMessage given to resolvePingOptions
    rOut              \* resolver harness: what resolvePingOptions returned (<<>> before the call)

vars == <<pc, reason, connOpen, input, pingMsg, opts, tickerOn, sequence,
          currentPacketSize, pong, sent, built, probes, checks, now,
          preloadPending, preloadLogged, peerUp, rIn, rOut>>

sessionVars == <<pc, reason, connOpen, input, pingMsg, opts, tickerOn, sequence,
                 currentPacketSize, pong, sent, built, probes, checks, now,
                 preloadPending, preloadLogged, peerUp>>

(***************************************************************************)
(* Bounds of the model.                                                    *)
(***************************************************************************)
IntBits == 12        \* scaled width of Go's int
MaxCount == 3        \* largest count offered to a session
MaxTicks == 4        \* ticks explored of a session that count does not bound
MaxPreload == 2      \* largest preload offered to a session
MaxLatency == 1      \* measured latencies are 0..MaxLatency

(***************************************************************************)
(* Machine integers.                                                       *)
(***************************************************************************)
MaxInt == 2 ^ (IntBits - 1) - 1
MinInt == -(2 ^ (IntBits - 1))

\* the value an int holds after an arithmetic result x
Wrap(x) == ((x - MinInt) % (2 ^ IntBits)) + MinInt

Abs(x) == IF x < 0 THEN -x ELSE x

\* Go's % on ints: the remainder of the truncated division, sign of the dividend (b # 0)
GoRem(a, b) == IF a >= 0 THEN a % Abs(b) ELSE -((-a) % Abs(b))

(***************************************************************************)
(* Constants of the package.                                               *)
(***************************************************************************)
defaultCount == 0
defaultWait == 1
\* mutant: the time to live of the handler without options
defaultTTLSimple == 50
defaultTTL == 64
defaultPacketSize == 56
defaultTimeout == 5
defaultWaitTime == 10
defaultTOS == 0
defaultPreload == 0
defaultSweepMin == 0
defaultSweepMax == 0
defaultSweepIncr == 0

(***************************************************************************)
(* PingMessage: the JSON key of every field, and the decoding.             *)
(***************************************************************************)
Nil == <<>>
Some(v) == <<v>>

\* the json tags of the pointer fields of PingMessage
Tag == [Adaptive |-> "a", Audible |-> "a_flag", Debug |-> "d", Flood |-> "f",
        Numeric |-> "n", Quiet |-> "q", Timestamp |-> "D", Verbose |-> "v",
        Count |-> "c", SweepMaxSize |-> "G", SweepMinSize |-> "g",
        SweepIncrSize |-> "h", Wait |-> "i", Preload |-> "l", Mask |-> "M",
        TTL |-> "m", Pattern |-> "p", SourceAddr |-> "S", PacketSize |-> "s",
        Timeout |-> "t", WaitTime |-> "W", TOS |-> "z"]

\* json.Unmarshal into a PingMessage: a key that is no field's tag is ignored
DecodePingMessage(json) ==
    [f \in DOMAIN Tag |-> IF Tag[f] \in DOMAIN json THEN Some(json[Tag[f]]) ELSE Nil]
    @@ [Address |-> IF "address" \in DOMAIN json THEN json["address"] ELSE <<>>]

\* mutant: the supplied value is dropped
getOrDefaultDropsValue(value, defaultValue) == defaultValue

getOrDefault(value, defaultValue) == IF value = Nil THEN defaultValue ELSE value[1]

\* mutant: the type-of-service rule is missing
validatePingOptionsNoTOS(o) ==
    IF o.Count < 0 THEN "count cannot be negative"
    ELSE IF o.Wait < 0 THEN "wait interval cannot be negative"
    ELSE IF o.TTL <= 0 \/ o.TTL > 255 THEN "TTL must be between 1 and 255"
    ELSE IF o.PacketSize < 0 THEN "packet size cannot be negative"
    ELSE IF o.SweepMaxSize > 0 /\ o.SweepMinSize >= o.SweepMaxSize
         THEN "sweep min size must be less than max size"
    ELSE IF o.SweepMaxSize > 0 /\ o.SweepIncrSize <= 0
         THEN "sweep increment size must be positive"
    ELSE IF o.Timeout <= 0 THEN "timeout must be positive"
    ELSE IF o.WaitTime <= 0 THEN "wait time must be positive"
    ELSE ""

\* the error of validatePingOptions, "" for nil
validatePingOptions(o) ==
    IF o.Count < 0 THEN "count cannot be negative"
    ELSE IF o.Wait < 0 THEN "wait interval cannot be negative"
    ELSE IF o.TTL <= 0 \/ o.TTL > 255 THEN "TTL must be between 1 and 255"
    ELSE IF o.PacketSize < 0 THEN "packet size cannot be negative"
    ELSE IF o.SweepMaxSize > 0 /\ o.SweepMinSize >= o.SweepMaxSize
         THEN "sweep min size must be less than max size"
    ELSE IF o.SweepMaxSize > 0 /\ o.SweepIncrSize <= 0
         THEN "sweep increment size must be positive"
    ELSE IF o.Timeout <= 0 THEN "timeout must be positive"
    ELSE IF o.WaitTime <= 0 THEN "wait time must be positive"
    ELSE IF o.TOS < 0 \/ o.TOS > 255 THEN "TOS must be between 0 and 255"
    ELSE ""

\* the PingOptions literal of resolvePingOptions
mergeDefaults(msg) ==
    [Count         |-> getOrDefault(msg.Count, defaultCount),
     Wait          |-> getOrDefault(msg.Wait, defaultWait),
     TTL           |-> getOrDefault(msg.TTL, defaultTTL),
     PacketSize    |-> getOrDefault(msg.PacketSize, defaultPacketSize),
     Timeout       |-> getOrDefault(msg.Timeout, defaultTimeout),
     WaitTime      |-> getOrDefault(msg.WaitTime, defaultWaitTime),
     TOS           |-> getOrDefault(msg.TOS, defaultTOS),
     SweepMinSize  |-> getOrDefault(msg.SweepMinSize, defaultSweepMin),
     SweepMaxSize  |-> getOrDefault(msg.SweepMaxSize, defaultSweepMax),
     SweepIncrSize |-> getOrDefault(msg.SweepIncrSize, defaultSweepIncr),
     Preload       |-> getOrDefault(msg.Preload, defaultPreload),
     SourceAddr    |-> getOrDefault(msg.SourceAddr, <<>>),
     Pattern       |-> getOrDefault(msg.Pattern, <<>>),
     Mask          |-> getOrDefault(msg.Mask, <<>>),
     IsAdaptive    |-> getOrDefault(msg.Adaptive, FALSE),
     IsAudible     |-> getOrDefault(msg.Audible, FALSE),
     IsDebug       |-> getOrDefault(msg.Debug, FALSE),
     IsFlood       |-> getOrDefault(msg.Flood, FALSE),
     IsNumeric     |-> getOrDefault(msg.Numeric, FALSE),
     IsQuiet       |-> getOrDefault(msg.Quiet, FALSE),
     HasTimestamp  |-> getOrDefault(msg.Timestamp, FALSE),
     IsVerbose     |-> getOrDefault(msg.Verbose, FALSE)]

\* mutant: flood leaves the interval alone
applyFloodNever(o) == o

\* the post-validation adjustment of resolvePingOptions
applyFlood(o) == IF o.IsFlood THEN [o EXCEPT !.Wait = 1] ELSE o

\* resolvePingOptions: the pair (opts, err) it returns, err "" for nil
resolvePingOptions(msg) ==
    LET o == mergeDefaults(msg)
        e == validatePingOptions(o)
    IN  IF e # "" THEN [opts |-> o, err |-> e]
        ELSE [opts |-> applyFlood(o), err |-> ""]

\* strings.HasPrefix on the chunk representation
HasPrefix(s, prefix) == Len(s) >= 1 /\ s[1] = prefix

formatAddress(addr) ==
    IF ~HasPrefix(addr, "http://") /\ ~HasPrefix(addr, "https://")
    THEN <<"http://">> \o addr
    ELSE addr

\* mutant: the success flag is not passed on
createPongMessageNoSuccess(address, seq, latency, success) ==
    [Type |-> "pong", Timestamp |-> now, Bytes |-> defaultPacketSize,
     Sequence |-> seq, Address |-> address, Latency |-> latency, Success |-> FALSE]

createPongMessage(address, seq, latency, success) ==
    [Type |-> "pong", Timestamp |-> now, Bytes |-> defaultPacketSize,
     Sequence |-> seq, Address |-> address, Latency |-> latency, Success |-> success]

\* the divisor of the sweep computation
sweepSpan(o) == Wrap(Wrap(o.SweepMaxSize - o.SweepMinSize) + 1)

\* the packet size of the tick whose incremented counter is seq (sweepSpan(o) # 0)
sweepSize(o, seq) ==
    Wrap(o.SweepMinSize + GoRem(Wrap(Wrap(seq - 1) * o.SweepIncrSize), sweepSpan(o)))

\* the loop's exit test, made before the tick's measurement
countExhausted(o, seq) == o.Count > 0 /\ seq >= o.Count

\* time.NewTicker panics on a non-positive duration
tickerPanics(o) == o.Wait <= 0

\* mutant: a single preload goroutine whatever the count
preloadLaunchedOne(o) == IF o.Preload > 0 THEN 1 ELSE 0

\* number of preload goroutines started
preloadLaunched(o) == IF o.Preload > 0 THEN o.Preload ELSE 0

\* mutant: the pong carries the incremented counter
pongSequenceOffByOne(seq) == seq

\* the sequence number given to the tick's pong
pongSequence(seq) == seq - 1

\* mutant: quiet is ignored
writesPongAlways(o) == TRUE

\* whether the tick writes its pong
writesPong(o) == ~o.IsQuiet

\* mutant: flood sessions check the connection too
checksConnectionAlways(o) == TRUE

\* whether the tick checks the connection
checksConnection(o) == ~o.IsFlood

(***************************************************************************)
(* The inputs offered to a session.                                        *)
(***************************************************************************)
Host == <<"example.com">>
Obj0 == [address |-> Host]

BigIncr == 2 ^ (IntBits - 2)

CountParts == {<<>>} \cup {[c |-> n] : n \in 1..MaxCount}
WaitParts == {<<>>, [i |-> 0]}
ModeParts == {<<>>, [f |-> TRUE], [q |-> TRUE], [f |-> TRUE, q |-> TRUE]}
PreloadParts == {[l |-> n] : n \in 1..MaxPreload}
SweepParts == {[g |-> 10, G |-> 20, h |-> 5],
               [g |-> 10, G |-> 20, h |-> BigIncr],
               [g |-> MinInt, G |-> MaxInt, h |-> 1]}

CoreInputs == {Obj0 @@ c @@ w @@ m : c \in CountParts, w \in WaitParts, m \in ModeParts}
PreloadInputs == {Obj0 @@ l @@ c @@ m : l \in PreloadParts, c \in {<<>>, [c |-> 1]},
                                       m \in {<<>>, [q |-> TRUE]}}
SweepInputs == {Obj0 @@ sw @@ c @@ m : sw \in SweepParts, c \in {<<>>, [c |-> MaxCount]},
                                      m \in {<<>>, [q |-> TRUE]}}
AddressInputs == {[address |-> <<"https://", "example.com">>, c |-> 1],
                  [address |-> <<"http://", "example.com">>, c |-> 1],
                  [c |-> 1]}

\* the object of the README's example
ReadmeInput == [address |-> Host, count |-> 5, wait |-> 1, packet_size |-> 56, timeout |-> 5]

\* one field out of range, alone and beside other fields that would have an effect
OutOfRange == {[c |-> -1], [i |-> -1], [m |-> 0], [m |-> 256], [s |-> -1],
               [G |-> 10, g |-> 10, h |-> 1], [G |-> 10, g |-> 20, h |-> 1],
               [G |-> 10, g |-> 0, h |-> 0], [G |-> 10, g |-> 0, h |-> -1],
               [t |-> 0], [t |-> -1], [W |-> 0], [W |-> -1], [z |-> -1], [z |-> 256]}
InvalidInputs == {bad @@ rest @@ Obj0 : bad \in OutOfRange,
                  rest \in {<<>>, [l |-> MaxPreload, f |-> TRUE, c |-> 1]}}

Inputs == CoreInputs \cup PreloadInputs \cup SweepInputs \cup AddressInputs
          \cup {ReadmeInput} \cup InvalidInputs

(***************************************************************************)
(* PingHandler.                                                            *)
(***************************************************************************)
\* the Go zero value of PingOptions and of PingMessage
zeroOpts == [Count |-> 0, Wait |-> 0, TTL |-> 0, PacketSize |-> 0, Timeout |-> 0,
             WaitTime |-> 0, TOS |-> 0, SweepMinSize |-> 0, SweepMaxSize |-> 0,
             SweepIncrSize |-> 0, Preload |-> 0, SourceAddr |-> <<>>, Pattern |-> <<>>,
             Mask |-> <<>>, IsAdaptive |-> FALSE, IsAudible |-> FALSE, IsDebug |-> FALSE,
             IsFlood |-> FALSE, IsNumeric |-> FALSE, IsQuiet |-> FALSE,
             HasTimestamp |-> FALSE, IsVerbose |-> FALSE]
zeroMsg == DecodePingMessage(<<>>)

SessionInit ==
    /\ pc = "await"
    /\ reason = "None"
    /\ connOpen = TRUE
    /\ input = <<>>
    /\ pingMsg = zeroMsg
    /\ opts = zeroOpts
    /\ tickerOn = FALSE
    /\ sequence = 0
    /\ currentPacketSize = 0
    /\ pong = <<>>
    /\ sent = <<>>
    /\ built = <<>>
    /\ probes = <<>>
    /\ checks = 0
    /\ now = 0
    /\ preloadPending = 0
    /\ preloadLogged = 0
    /\ peerUp = TRUE

Init ==
    /\ SessionInit
    /\ rIn = zeroMsg
    /\ rOut = <<>>

\* mutant: the ticker is left running on return
ReturnKeepsTicker(why) ==
    /\ pc' = "done"
    /\ reason' = why
    /\ connOpen' = FALSE
    /\ tickerOn' = tickerOn

\* mutant: the connection is not closed on return
ReturnNoClose(why) ==
    /\ pc' = "done"
    /\ reason' = why
    /\ connOpen' = connOpen
    /\ tickerOn' = FALSE

\* a return of PingHandler, or a panic unwinding it: the deferred ticker.Stop and conn.Close run
Return(why) ==
    /\ pc' = "done"
    /\ reason' = why
    /\ connOpen' = FALSE
    /\ tickerOn' = FALSE

\* conn.ReadJSON fails: the payload is malformed or the connection is closed
ReadFail ==
    /\ pc = "await"
    /\ Return("ReadError")
    /\ UNCHANGED <<input, pingMsg, opts, sequence, currentPacketSize, pong, sent, built,
                   probes, checks, now, preloadPending, preloadLogged, peerUp, rIn, rOut>>

\* conn.ReadJSON succeeds; the handler runs up to the loop's first wait on ticker.C
ReadConfig ==
    /\ pc = "await"
    /\ peerUp
    /\ \E json \in Inputs :
         LET msg == DecodePingMessage(json)
             r   == resolvePingOptions(msg)
         IN  /\ input' = json
             /\ opts' = r.opts
             /\ IF r.err # ""
                THEN /\ Return("InvalidOption")
                     /\ pingMsg' = msg
                     /\ UNCHANGED preloadPending
                ELSE /\ pingMsg' = [msg EXCEPT !.Address = formatAddress(msg.Address)]
                     /\ IF tickerPanics(r.opts)
                        THEN /\ Return("Panic")
                             /\ UNCHANGED preloadPending
                        ELSE /\ pc' = "tick"
                             /\ tickerOn' = TRUE
                             /\ preloadPending' = preloadLaunched(r.opts)
                             /\ UNCHANGED <<reason, connOpen>>
    /\ UNCHANGED <<sequence, currentPacketSize, pong, sent, built, probes, checks, now,
                   preloadLogged, peerUp, rIn, rOut>>

\* ticker.C delivers: the exit test, the increment and the tick's packet size
TickStart ==
    /\ pc = "tick"
    /\ countExhausted(opts, sequence) \/ sequence < MaxTicks
    /\ IF countExhausted(opts, sequence)
       THEN /\ Return("CountExhausted")
            /\ UNCHANGED <<sequence, currentPacketSize, now>>
       ELSE /\ sequence' = Wrap(sequence + 1)
            /\ now' = now + 1
            /\ IF opts.SweepMaxSize > 0
               THEN IF sweepSpan(opts) = 0
                    THEN /\ Return("Panic")
                         /\ UNCHANGED currentPacketSize
                    ELSE /\ currentPacketSize' = sweepSize(opts, sequence')
                         /\ pc' = "measure"
                         /\ UNCHANGED <<reason, connOpen, tickerOn>>
               ELSE /\ currentPacketSize' = opts.PacketSize
                    /\ pc' = "measure"
                    /\ UNCHANGED <<reason, connOpen, tickerOn>>
    /\ UNCHANGED <<input, pingMsg, opts, pong, sent, built, probes, checks,
                   preloadPending, preloadLogged, peerUp, rIn, rOut>>

\* what measureLatency can return: (latency, success)
ProbeOutcomes == {<<l, TRUE>> : l \in 0..MaxLatency} \cup {<<0, FALSE>>}

\* measureLatency returns and the tick's pong is built
Measure ==
    /\ pc = "measure"
    /\ \E out \in ProbeOutcomes :
         LET p == [createPongMessage(pingMsg.Address, pongSequence(sequence), out[1], out[2])
                   EXCEPT !.Bytes = currentPacketSize]
         IN  /\ pong' = <<p>>
             /\ built' = Append(built, p)
             /\ probes' = Append(probes, out)
    /\ pc' = "send"
    /\ UNCHANGED <<reason, connOpen, input, pingMsg, opts, tickerOn, sequence,
                   currentPacketSize, sent, checks, now, preloadPending, preloadLogged,
                   peerUp, rIn, rOut>>

\* mutant: the error of sendPongMessage is ignored
SendIgnoresError ==
    /\ pc = "send"
    /\ sent' = IF writesPong(opts) /\ peerUp THEN Append(sent, pong[1]) ELSE sent
    /\ pc' = "check"
    /\ UNCHANGED <<reason, connOpen, tickerOn>>
    /\ UNCHANGED <<input, pingMsg, opts, sequence, currentPacketSize, pong, built, probes, checks,
                   now, preloadPending, preloadLogged, peerUp, rIn, rOut>>

\* sendPongMessage, skipped when quiet
Send ==
    /\ pc = "send"
    /\ IF writesPong(opts)
       THEN IF peerUp
            THEN /\ sent' = Append(sent, pong[1])
                 /\ pc' = "check"
                 /\ UNCHANGED <<reason, connOpen, tickerOn>>
            ELSE /\ Return("WriteError")
                 /\ UNCHANGED sent
       ELSE /\ pc' = "check"
            /\ UNCHANGED <<sent, reason, connOpen, tickerOn>>
    /\ UNCHANGED <<input, pingMsg, opts, sequence, currentPacketSize, pong, built, probes, checks,
                   now, preloadPending, preloadLogged, peerUp, rIn, rOut>>

\* checkConnection, or the millisecond sleep of a flood session; the iteration ends
CheckConn ==
    /\ pc = "check"
    /\ IF checksConnection(opts)
       THEN /\ checks' = checks + 1
            /\ IF peerUp
               THEN /\ pc' = "tick"
                    /\ UNCHANGED <<reason, connOpen, tickerOn>>
               ELSE Return("PeerUnreachable")
       ELSE /\ pc' = "tick"
            /\ UNCHANGED <<checks, reason, connOpen, tickerOn>>
    /\ pong' = <<>>
    /\ UNCHANGED <<input, pingMsg, opts, sequence, currentPacketSize, sent, built, probes, now,
                   preloadPending, preloadLogged, peerUp, rIn, rOut>>

\* one preload goroutine finishes its measureLatency, logging on success
PreloadProbe ==
    /\ preloadPending > 0
    /\ preloadPending' = preloadPending - 1
    /\ \E ok \in BOOLEAN : preloadLogged' = IF ok THEN preloadLogged + 1 ELSE preloadLogged
    /\ UNCHANGED <<pc, reason, connOpen, input, pingMsg, opts, tickerOn, sequence,
                   currentPacketSize, pong, sent, built, probes, checks, now, peerUp, rIn, rOut>>

\* the client goes away: from now on every write to the connection fails
PeerDisconnect ==
    /\ peerUp
    /\ pc # "done"
    /\ peerUp' = FALSE
    /\ UNCHANGED <<pc, reason, connOpen, input, pingMsg, opts, tickerOn, sequence,
                   currentPacketSize, pong, sent, built, probes, checks, now, preloadPending,
                   preloadLogged, rIn, rOut>>

Next ==
    \/ ReadFail
    \/ ReadConfig
    \/ TickStart
    \/ Measure
    \/ Send
    \/ CheckConn
    \/ PreloadProbe
    \/ PeerDisconnect

Spec == Init /\ [][Next]_vars

\* the states of the session
State == IF pc = "await" THEN "AwaitingConfig"
         ELSE IF pc = "done" THEN "Terminated" ELSE "Running"

(***************************************************************************)
(* resolvePingOptions on its own: the message is drawn from ResolveInputs  *)
(* and the function is applied to it once.                                 *)
(***************************************************************************)
MaxWait == 3         \* largest interval offered to the resolver

\* every optional key present, every value within its range
FlagsPresent == {[a |-> b, a_flag |-> ~b, d |-> b, n |-> ~b, D |-> b, v |-> ~b,
                  S |-> <<"10.0.0.1">>, p |-> <<"ff">>, M |-> <<"mask">>] : b \in BOOLEAN}
SweepValid == {[g |-> 0, G |-> 0, h |-> 0], [g |-> 10, G |-> 20, h |-> 5],
               [g |-> -1, G |-> 1, h |-> 1]}
AllPresentValid ==
    {[address |-> Host, c |-> c, i |-> i, m |-> m, s |-> ps, t |-> t, W |-> w, z |-> z,
      l |-> MaxPreload, f |-> fl, q |-> ~fl] @@ sw @@ fp :
        c \in {0, MaxCount}, i \in {0, MaxWait}, m \in {1, 255}, ps \in {0, 56},
        t \in {1, 5}, w \in {1, 10}, z \in {0, 255}, fl \in BOOLEAN,
        sw \in SweepValid, fp \in FlagsPresent}

\* flood on and off beside every interval, valid or not, and beside another bad field
FloodInputs == {Obj0 @@ [f |-> fl] @@ w @@ rest :
                  fl \in BOOLEAN,
                  w \in {<<>>} \cup {[i |-> n] : n \in -1..MaxWait},
                  rest \in {<<>>, [m |-> 0], [c |-> MaxCount, q |-> TRUE]}}

\* a message with every optional field present and valid, flood on or off
FullValid(fl) ==
    [address |-> Host, c |-> MaxCount, i |-> MaxWait, m |-> 255, s |-> 0, t |-> 1, W |-> 1,
     z |-> 255, l |-> MaxPreload, f |-> fl, q |-> TRUE, g |-> 10, G |-> 20, h |-> 5,
     a |-> TRUE, a_flag |-> TRUE, d |-> TRUE, n |-> TRUE, D |-> TRUE, v |-> TRUE,
     S |-> <<"10.0.0.1">>, p |-> <<"ff">>, M |-> <<"mask">>]

\* the object json with the keys in S only
Restrict(json, S) == [k \in S |-> json[k]]

\* one optional field absent beside all the others, and one present beside none
PartialInputs ==
    {Restrict(FullValid(fl), DOMAIN FullValid(fl) \ {k}) :
        fl \in BOOLEAN, k \in DOMAIN FullValid(TRUE) \ {"address"}}
    \cup {Restrict(FullValid(fl), {"address", k}) :
        fl \in BOOLEAN, k \in DOMAIN FullValid(TRUE) \ {"address"}}

ResolveInputs == AllPresentValid \cup FloodInputs \cup PartialInputs \cup Inputs

InitResolve ==
    /\ SessionInit
    /\ rIn \in {DecodePingMessage(json) : json \in ResolveInputs}
    /\ rOut = <<>>

\* opts, err := resolvePingOptions(&pingMsg)
Resolve ==
    /\ rOut = <<>>
    /\ rOut' = <<resolvePingOptions(rIn)>>
    /\ UNCHANGED <<sessionVars, rIn>>

NextResolve == Resolve

SpecResolve == InitResolve /\ [][NextResolve]_vars

(***************************************************************************)
(* The session claims.                                                     *)
(***************************************************************************)
\* the options were resolved without error (the handler got past line 271)
Resolved == input # <<>> /\ reason # "InvalidOption"

\* C1: a session with count = N > 0 in which no report write and no liveness
\* check fails never attempts more than N measurements, and ends with reason
\* CountExhausted after exactly N reports (built in N ticks, and written to the
\* connection unless the session is quiet).
C1_CountExhaustion ==
    (Resolved /\ opts.Count > 0 /\ reason \notin {"WriteError", "PeerUnreachable"}) =>
        /\ Len(built) <= opts.Count
        /\ pc = "done" =>
             /\ reason = "CountExhausted"
             /\ Len(built) = opts.Count
             /\ ~opts.IsQuiet => Len(sent) = opts.Count

\* C2: the reports written to the connection carry sequence 0, 1, 2, ... in
\* that order, without gap or repeat, and a session that is not quiet has
\* written one report for every tick it completed.
C2_SequenceMonotonic ==
    /\ \A k \in 1..Len(sent) : sent[k].Sequence = k - 1
    /\ (Resolved /\ ~opts.IsQuiet /\ pc \in {"tick", "check"}) => Len(sent) = sequence

\* C2 witness: two reports written, with different outcomes, while a preload probe is outstanding
C2_Witness ==
    /\ Len(sent) = 2
    /\ sent[1].Success # sent[2].Success
    /\ preloadPending > 0

\* C3: the measurement step never ends the session: whatever measureLatency
\* returns the loop goes on to the tick's send step, the pong built for tick k
\* carries sequence k-1 and success = (the probe succeeded), with latency 0 for
\* a failed probe; and no session ends for a reason other than the setup
\* failures, count exhaustion, a failed write or a failed connection check.
C3_ProbeFailureIsolated ==
    [][/\ pc = "measure" =>
            /\ pc' \in {"measure", "send"}
            /\ pc' = "send" =>
                 /\ Len(built') = Len(probes') /\ Len(built') = Len(built) + 1
                 /\ LET k == Len(built')
                    IN  /\ built'[k].Success = probes'[k][2]
                        /\ built'[k].Sequence = k - 1
                        /\ ~probes'[k][2] => built'[k].Latency = 0
                        /\ pong' = <<built'[k]>>
       /\ (pc # "done" /\ pc' = "done") =>
            /\ reason' \in {"ReadError", "InvalidOption", "Panic", "CountExhausted",
                            "WriteError", "PeerUnreachable"}
            /\ pc \in {"measure", "send", "check"} =>
                 reason' \in {"WriteError", "PeerUnreachable"}
            /\ reason' = "WriteError" => (pc = "send" /\ ~peerUp)
            /\ reason' = "PeerUnreachable" => (pc = "check" /\ ~peerUp)
      ]_vars

\* C3 witness: the probe of tick 1 failed, its report was written with
\* success=false, and tick 2 was measured and written with success=true
C3_Witness ==
    /\ Len(probes) = 2
    /\ ~probes[1][2] /\ probes[2][2]
    /\ Len(sent) = 2
    /\ ~sent[1].Success /\ sent[2].Success
    /\ State = "Running"

\* C4 as stated: a quiet session writes no report, performs the measurement and
\* a liveness check in every tick, and exhausts its count only after count ticks.
C4_QuietAsStated ==
    (Resolved /\ opts.IsQuiet) =>
        /\ sent = <<>>
        /\ pc = "tick" => (Len(built) = sequence /\ checks = sequence)
        /\ reason = "CountExhausted" => Len(built) = opts.Count

\* C4 amended: a quiet session writes no report, performs the measurement in
\* every tick and a liveness check in every tick exactly when it is not a flood
\* session, and exhausts its count only after count ticks.
C4_Quiet ==
    (Resolved /\ opts.IsQuiet) =>
        /\ sent = <<>>
        /\ pc = "tick" =>
             /\ Len(built) = sequence
             /\ checks = IF opts.IsFlood THEN 0 ELSE sequence
        /\ reason = "CountExhausted" =>
             /\ Len(built) = opts.Count
             /\ checks = IF opts.IsFlood THEN 0 ELSE opts.Count

\* C4 witness: a quiet session ran its MaxCount ticks, one of them successful, with a check each
C4_Witness ==
    /\ opts.IsQuiet /\ ~opts.IsFlood
    /\ reason = "CountExhausted"
    /\ Len(built) = MaxCount /\ checks = MaxCount
    /\ built[1].Success
    /\ sent = <<>>

\* C5: after a failed read or a failed option resolution the session is
\* Terminated with the connection closed, and it has written no report, made no
\* measurement, started no ticker and no preload probe, and checked nothing.
C5_SilentSetupFailure ==
    reason \in {"ReadError", "InvalidOption"} =>
        /\ State = "Terminated"
        /\ ~connOpen
        /\ ~tickerOn
        /\ sent = <<>> /\ built = <<>> /\ probes = <<>> /\ pong = <<>>
        /\ sequence = 0 /\ checks = 0
        /\ preloadPending = 0 /\ preloadLogged = 0

\* C5 witness: a message asking for preload probes was rejected
C5_Witness ==
    /\ reason = "InvalidOption"
    /\ pingMsg.Preload = <<MaxPreload>>
    /\ pingMsg.TTL = <<0>>

(***************************************************************************)
(* The option resolver claims.                                             *)
(***************************************************************************)
\* the PingOptions field that a PingMessage field resolves to
OptField == [Adaptive |-> "IsAdaptive", Audible |-> "IsAudible", Debug |-> "IsDebug",
             Flood |-> "IsFlood", Numeric |-> "IsNumeric", Quiet |-> "IsQuiet",
             Timestamp |-> "HasTimestamp", Verbose |-> "IsVerbose", Count |-> "Count",
             SweepMaxSize |-> "SweepMaxSize", SweepMinSize |-> "SweepMinSize",
             SweepIncrSize |-> "SweepIncrSize", Wait |-> "Wait", Preload |-> "Preload",
             Mask |-> "Mask", TTL |-> "TTL", Pattern |-> "Pattern",
             SourceAddr |-> "SourceAddr", PacketSize |-> "PacketSize",
             Timeout |-> "Timeout", WaitTime |-> "WaitTime", TOS |-> "TOS"]

\* the value a field of the message has, as the spec's rules read it: the default when absent
Supplied(msg, dflt) == IF msg = <<>> THEN dflt ELSE msg[1]

\* the spec's validation rules 1 to 8, read on a message: the rules it breaks
RulesBroken(msg) ==
    LET smax == Supplied(msg.SweepMaxSize, 0)
        smin == Supplied(msg.SweepMinSize, 0)
        sinc == Supplied(msg.SweepIncrSize, 0)
        ttl  == Supplied(msg.TTL, 64)
        tos  == Supplied(msg.TOS, 0)
        Broken(r) ==
            CASE r = "count" -> Supplied(msg.Count, 0) < 0
              [] r = "interval" -> Supplied(msg.Wait, 1) < 0
              [] r = "timeToLive" -> ttl < 1 \/ ttl > 255
              [] r = "packetSize" -> Supplied(msg.PacketSize, 56) < 0
              [] r = "sweep" -> smax > 0 /\ (smin >= smax \/ sinc <= 0)
              [] r = "timeout" -> Supplied(msg.Timeout, 5) <= 0
              [] r = "waitTime" -> Supplied(msg.WaitTime, 10) <= 0
              [] r = "typeOfService" -> tos < 0 \/ tos > 255
    IN  {r \in {"count", "interval", "timeToLive", "packetSize", "sweep", "timeout",
                "waitTime", "typeOfService"} : Broken(r)}

\* every optional field of the message is present
AllPresent(msg) == \A f \in DOMAIN Tag : msg[f] # <<>>

\* C6 as stated: when every optional field is present with a valid value,
\* resolution succeeds and every resolved field equals the supplied value.
C6_OverridesAsStated ==
    (rOut # <<>> /\ AllPresent(rIn) /\ RulesBroken(rIn) = {}) =>
        /\ rOut[1].err = ""
        /\ \A f \in DOMAIN Tag : rOut[1].opts[OptField[f]] = rIn[f][1]

\* C6 amended: when every optional field is present with a valid value,
\* resolution succeeds and every resolved field equals the supplied value,
\* except the interval of a message with flood=true, which resolves to 1.
C6_Overrides ==
    (rOut # <<>> /\ AllPresent(rIn) /\ RulesBroken(rIn) = {}) =>
        /\ rOut[1].err = ""
        /\ \A f \in DOMAIN Tag \ {"Wait"} : rOut[1].opts[OptField[f]] = rIn[f][1]
        /\ rOut[1].opts.Wait = IF rIn.Flood[1] THEN 1 ELSE rIn.Wait[1]

\* C6 witness: a fully specified valid message with flood and interval MaxWait was resolved
C6_Witness ==
    /\ rOut # <<>>
    /\ AllPresent(rIn) /\ RulesBroken(rIn) = {}
    /\ rIn.Flood = <<TRUE>> /\ rIn.Wait = <<MaxWait>>
    /\ rIn.SweepMaxSize = <<20>> /\ rIn.TTL = <<255>>
    /\ rOut[1].err = ""

\* C7: a message that breaks one of the validation rules is rejected, and none
\* of its fields takes effect: the session ends with InvalidOption before any
\* ticker, preload probe, measurement, report or connection check.
C7_AllOrNothing ==
    (input # <<>> /\ RulesBroken(DecodePingMessage(input)) # {}) =>
        /\ reason = "InvalidOption"
        /\ State = "Terminated"
        /\ ~connOpen /\ ~tickerOn
        /\ pingMsg = DecodePingMessage(input)
        /\ preloadPending = 0 /\ preloadLogged = 0
        /\ sequence = 0 /\ checks = 0
        /\ built = <<>> /\ sent = <<>>

\* C7 witness: only the type of service is out of range, beside flood, count and preload
C7_Witness ==
    /\ input = [address |-> Host, z |-> 256, l |-> MaxPreload, f |-> TRUE, c |-> 1]
    /\ RulesBroken(pingMsg) = {"typeOfService"}
    /\ reason = "InvalidOption"

\* C8: whenever a message with flood=true is resolved, the resolved interval
\* is 1, whatever interval the message supplied.
C8_FloodOverride ==
    (rOut # <<>> /\ rIn.Flood = <<TRUE>> /\ rOut[1].err = "") => rOut[1].opts.Wait = 1

\* C8 witness: flood=true with the explicit interval MaxWait was resolved
C8_Witness ==
    /\ rOut # <<>>
    /\ rIn.Flood = <<TRUE>> /\ rIn.Wait = <<MaxWait>>
    /\ rOut[1].err = "" /\ rOut[1].opts.Wait = 1

\* C9: the byte size of every tick's report is packetSize when sweepMax = 0 and
\* otherwise sweepMin + ((sequence-1) * sweepIncrement) mod (sweepMax - sweepMin + 1),
\* a value within [sweepMin, sweepMax].
C9_SweepCycling ==
    pong # <<>> =>
        IF opts.SweepMaxSize = 0
        THEN pong[1].Bytes = opts.PacketSize
        ELSE /\ pong[1].Bytes = opts.SweepMinSize
                  + (((sequence - 1) * opts.SweepIncrSize)
                        % (opts.SweepMaxSize - opts.SweepMinSize + 1))
             /\ pong[1].Bytes >= opts.SweepMinSize
             /\ pong[1].Bytes <= opts.SweepMaxSize

\* C10: the message of the README's example resolves to count 5, interval 1,
\* packet size 56 and timeout 5.
C10_ReadmeKeys ==
    (input = ReadmeInput /\ Resolved) =>
        /\ opts.Count = 5
        /\ opts.Wait = 1
        /\ opts.PacketSize = 56
        /\ opts.Timeout = 5
(***************************************************************************)
(* The claims on failures, preload probes and the session's life.          *)
(***************************************************************************)
\* C11: a session that ended with WriteError failed the write of its last
\* tick: that tick was measured, its report was not written and its liveness
\* check was not made; a session that ended with PeerUnreachable failed the
\* liveness check of its last tick after that tick's measurement and report
\* step; after either, nothing more is measured, written or checked.
C11_FatalTransportFailure ==
    /\ reason = "WriteError" =>
         /\ State = "Terminated"
         /\ ~opts.IsQuiet
         /\ sequence >= 1 /\ Len(built) = sequence
         /\ Len(sent) = sequence - 1
         /\ checks = IF opts.IsFlood THEN 0 ELSE sequence - 1
    /\ reason = "PeerUnreachable" =>
         /\ State = "Terminated"
         /\ ~opts.IsFlood
         /\ sequence >= 1 /\ Len(built) = sequence
         /\ Len(sent) = IF opts.IsQuiet THEN 0 ELSE sequence
         /\ checks = sequence

\* C11 witness: the liveness check of tick 2 failed after tick 2 was measured
\* with success and its report written
C11_Witness ==
    /\ reason = "PeerUnreachable"
    /\ sequence = 2 /\ Len(sent) = 2
    /\ sent[2].Success

\* C12: the preload goroutines are started when the handler enters the loop,
\* as many as the resolved preload count, before any tick; a step of a preload
\* goroutine changes nothing of the session but the number outstanding and the
\* log; no step of the handler changes the number outstanding, and none waits
\* for it.
C12_PreloadDetached ==
    [][/\ (pc = "await" /\ pc' = "tick") =>
            /\ preloadPending' = IF opts'.Preload > 0 THEN opts'.Preload ELSE 0
            /\ sequence' = 0 /\ built' = <<>> /\ sent' = <<>>
       /\ pc' = "await" => preloadPending' = 0
       /\ pc # "await" =>
            \/ preloadPending' = preloadPending
            \/ /\ preloadPending' = preloadPending - 1
               /\ preloadLogged' \in {preloadLogged, preloadLogged + 1}
               /\ UNCHANGED <<pc, reason, connOpen, input, pingMsg, opts, tickerOn,
                              sequence, currentPacketSize, pong, sent, built, probes,
                              checks, now, peerUp>>
       /\ preloadPending' = preloadPending => preloadLogged' = preloadLogged
      ]_vars

\* C12 witness: the session ran its tick and ended by count exhaustion while
\* all its MaxPreload preload probes were still outstanding
C12_Witness ==
    /\ opts.Preload = MaxPreload
    /\ preloadPending = MaxPreload
    /\ reason = "CountExhausted"
    /\ Len(sent) = 1

\* C13: a flood session never checks the connection; in any other session the
\* liveness check of a tick comes after the tick's report step and before the
\* next tick: the checks made number the ticks started less one while a tick is
\* being measured, sent or checked, and the ticks started once a tick is over.
C13_LivenessPlacement ==
    Resolved =>
        IF opts.IsFlood THEN checks = 0
        ELSE /\ pc = "tick" => checks = sequence
             /\ pc \in {"measure", "send", "check"} => checks = sequence - 1
             /\ reason \in {"CountExhausted", "PeerUnreachable"} => checks = sequence
             /\ reason = "WriteError" => checks = sequence - 1

\* C13 witness: a quiet session that is not a flood session measures tick 2
\* having checked the connection once
C13_Witness ==
    /\ Resolved /\ ~opts.IsFlood /\ opts.IsQuiet
    /\ pc = "measure" /\ sequence = 2
    /\ checks = 1

\* C14: the session moves from AwaitingConfig to Running or Terminated and
\* from Running to Terminated only; in Terminated the connection is closed and
\* the ticker stopped, and the handler never reads, measures, writes or checks
\* again.
C14_TerminalFinal ==
    [][/\ State = "AwaitingConfig" => State' \in {"AwaitingConfig", "Running", "Terminated"}
       /\ State = "Running" => State' \in {"Running", "Terminated"}
       /\ State' = "Terminated" =>
            /\ ~connOpen' /\ ~tickerOn'
            /\ reason' \in {"ReadError", "InvalidOption", "Panic", "CountExhausted",
                            "WriteError", "PeerUnreachable"}
       /\ State' # "Terminated" => (connOpen' /\ reason' = "None")
       /\ State = "Terminated" =>
            UNCHANGED <<pc, reason, connOpen, input, pingMsg, opts, tickerOn, sequence,
                        currentPacketSize, pong, sent, built, probes, checks, now>>
      ]_vars

\* C14 witness: a session ended by a failed write with a preload probe still to finish
C14_Witness ==
    /\ State = "Terminated"
    /\ reason = "WriteError"
    /\ Len(sent) = 1
    /\ preloadPending = 1
\* C15: a session with count 0 that is not a flood session never ends by
\* count exhaustion, and when it has ended it ended by a failed write or a
\* failed liveness check.
C15_Unbounded ==
    (Resolved /\ opts.Count = 0 /\ ~opts.IsFlood) =>
        /\ reason # "CountExhausted"
        /\ State = "Terminated" => reason \in {"WriteError", "PeerUnreachable"}

\* C18: once the peer is unreachable an unbounded session does not complete a
\* tick: a session that writes reports ends at the report step, and a quiet
\* session, which has only the liveness check to find the peer gone, ends at
\* the check step.
C18_DisconnectDetected ==
    [][(Resolved /\ opts.Count = 0 /\ ~peerUp) =>
          /\ (pc = "send" /\ ~opts.IsQuiet) => pc' \in {"send", "done"}
          /\ (pc = "check" /\ opts.IsQuiet) => pc' \in {"check", "done"}
      ]_vars

\* C19: a session whose configuration passed option resolution and that has
\* not ticked yet is in the loop with its ticker running.
C19_AcceptedStarts ==
    (Resolved /\ sequence = 0) =>
        /\ pc = "tick"
        /\ tickerOn
        /\ reason = "None"

\* the tick measurements performed, the one under way included
measurementsStarted == Len(probes) + (IF pc = "measure" THEN 1 ELSE 0)

\* C20: the reports written are at most the tick measurements performed, which
\* are as many as the sequence counter says, and with count > 0 the counter
\* never exceeds count.
C20_TickAccounting ==
    Resolved =>
        /\ Len(sent) <= measurementsStarted
        /\ measurementsStarted = sequence
        /\ opts.Count > 0 => sequence <= opts.Count
\* the defaults the specification documents, by field of the message
DocumentedDefault ==
    [Count |-> 0, Wait |-> 1, TTL |-> 64, PacketSize |-> 56, Timeout |-> 5, WaitTime |-> 10,
     TOS |-> 0, Preload |-> 0, SweepMinSize |-> 0, SweepMaxSize |-> 0, SweepIncrSize |-> 0,
     SourceAddr |-> <<>>, Pattern |-> <<>>, Mask |-> <<>>,
     Adaptive |-> FALSE, Audible |-> FALSE, Debug |-> FALSE, Flood |-> FALSE,
     Numeric |-> FALSE, Quiet |-> FALSE, Timestamp |-> FALSE, Verbose |-> FALSE]

\* C17: every optional field absent from the message resolves to its
\* documented default whatever other fields are present, and a message with
\* no optional field resolves without error.
C17_IndependentDefaults ==
    rOut # <<>> =>
        /\ \A f \in DOMAIN Tag :
             rIn[f] = Nil => rOut[1].opts[OptField[f]] = DocumentedDefault[f]
        /\ (\A f \in DOMAIN Tag : rIn[f] = Nil) => rOut[1].err = ""

\* C17 witness: the time to live alone is absent beside every other field, flood included
C17_Witness ==
    /\ rOut # <<>>
    /\ rIn.TTL = Nil
    /\ \A f \in DOMAIN Tag \ {"TTL"} : rIn[f] # Nil
    /\ rIn.Flood = Some(TRUE)
    /\ rOut[1].err = ""
    /\ rOut[1].opts.TTL = 64
(***************************************************************************)
(* The handler without options (the second PingHandler of the source): one *)
(* session on the same variables; opts, currentPacketSize and the preload  *)
(* counters are not used by it and keep their initial values.              *)
(***************************************************************************)
responseBytes == 64

\* createPongMessage of the handler without options: Success is the literal false
createPongMessageSimple(address, seq, latency, success) ==
    [Type |-> "pong", Timestamp |-> now, Bytes |-> responseBytes,
     Sequence |-> seq, Address |-> address, Latency |-> latency, Success |-> FALSE]

\* its PingMessage has the address alone: every other key is ignored
SimpleInputs == {<<>>, Obj0, Obj0 @@ [c |-> 1],
                 [address |-> <<"http://", "example.com">>],
                 [address |-> <<"https://", "example.com">>]}

\* conn.ReadJSON succeeds; formatAddress, the ticker of pingInterval, sequence := 0
ReadSimple ==
    /\ pc = "await"
    /\ peerUp
    /\ \E json \in SimpleInputs :
         /\ input' = json
         /\ pingMsg' = [zeroMsg EXCEPT !.Address =
                           formatAddress(DecodePingMessage(json).Address)]
    /\ pc' = "tick"
    /\ tickerOn' = TRUE
    /\ UNCHANGED <<reason, connOpen, opts, sequence, currentPacketSize, pong, sent, built,
                   probes, checks, now, preloadPending, preloadLogged, peerUp, rIn, rOut>>

\* ticker.C delivers: sequence++
TickSimple ==
    /\ pc = "tick"
    /\ sequence < MaxTicks
    /\ sequence' = Wrap(sequence + 1)
    /\ now' = now + 1
    /\ pc' = "measure"
    /\ UNCHANGED <<reason, connOpen, input, pingMsg, opts, tickerOn, currentPacketSize, pong,
                   sent, built, probes, checks, preloadPending, preloadLogged, peerUp, rIn, rOut>>

\* measureLatency, success := err == nil, createPongMessage
MeasureSimple ==
    /\ pc = "measure"
    /\ \E out \in ProbeOutcomes :
         LET p == createPongMessageSimple(pingMsg.Address, sequence - 1, out[1], out[2])
         IN  /\ pong' = <<p>>
             /\ built' = Append(built, p)
             /\ probes' = Append(probes, out)
    /\ pc' = "send"
    /\ UNCHANGED <<reason, connOpen, input, pingMsg, opts, tickerOn, sequence,
                   currentPacketSize, sent, checks, now, preloadPending, preloadLogged,
                   peerUp, rIn, rOut>>

\* sendPongMessage: a failed write returns
SendSimple ==
    /\ pc = "send"
    /\ IF peerUp
       THEN /\ sent' = Append(sent, pong[1])
            /\ pc' = "check"
            /\ UNCHANGED <<reason, connOpen, tickerOn>>
       ELSE /\ Return("WriteError")
            /\ UNCHANGED sent
    /\ UNCHANGED <<input, pingMsg, opts, sequence, currentPacketSize, pong, built, probes, checks,
                   now, preloadPending, preloadLogged, peerUp, rIn, rOut>>

\* logPingResult, then checkConnection: a failed control write returns
CheckSimple ==
    /\ pc = "check"
    /\ checks' = checks + 1
    /\ IF peerUp
       THEN /\ pc' = "tick"
            /\ UNCHANGED <<reason, connOpen, tickerOn>>
       ELSE Return("PeerUnreachable")
    /\ pong' = <<>>
    /\ UNCHANGED <<input, pingMsg, opts, sequence, currentPacketSize, sent, built, probes, now,
                   preloadPending, preloadLogged, peerUp, rIn, rOut>>

NextSimple ==
    \/ ReadFail
    \/ ReadSimple
    \/ TickSimple
    \/ MeasureSimple
    \/ SendSimple
    \/ CheckSimple
    \/ PeerDisconnect

SpecSimple == Init /\ [][NextSimple]_vars

\* C16: the report built for tick k is of kind "pong", names the session's
\* normalized target, carries the sequence of the tick (from 0) and the
\* latency measureLatency returned, 0 when the probe failed, and says success
\* exactly when that probe succeeded.
C16_ReportFidelity ==
    \A k \in 1..Len(built) :
        /\ built[k].Type = "pong"
        /\ built[k].Address = pingMsg.Address
        /\ built[k].Sequence = k - 1
        /\ built[k].Latency = probes[k][1]
        /\ ~probes[k][2] => built[k].Latency = 0
        /\ built[k].Success = probes[k][2]
====
